---- MODULE Spec2Model ----
(***************************************************************************)
(* Request-to-operation dispatch pipeline of content-kitty (SystemPanda):  *)
(* the collection route handler, the query normaliser mapQuery and the    *)
(* error handler, as a state machine over in-flight requests.             *)
(***************************************************************************)
EXTENDS Integers, Sequences, FiniteSets, TLC

(***************************************************************************)
(* JavaScript values.  A string is a sequence of one-character strings.    *)
(***************************************************************************)
Str(s) == [t |-> "str", s |-> s]
Num(n) == [t |-> "num", n |-> n]
Arr(xs) == [t |-> "arr", xs |-> xs]
Obj(f) == [t |-> "obj", f |-> f]
Bool(b) == [t |-> "bool", b |-> b]
Null == [t |-> "null"]
Undef == [t |-> "undef"]
NaN == [t |-> "nan"]

EmptyObj == Obj(<<>>)

Digits == {"0", "1", "5"}

DigitVal(c) == CASE c = "0" -> 0 [] c = "1" -> 1 [] c = "5" -> 5

\* String.prototype.includes for a one-character needle.
Includes(s, c) == \E i \in 1..Len(s) : s[i] = c

\* Index of the first occurrence of c in s, 0 when absent.
RECURSIVE IndexOf(_, _, _)
IndexOf(s, c, i) ==
    IF i > Len(s) THEN 0
    ELSE IF s[i] = c THEN i
    ELSE IndexOf(s, c, i + 1)

\* String.prototype.split(sep) for a one-character separator.
RECURSIVE Split(_, _)
Split(s, sep) ==
    LET i == IndexOf(s, sep, 1) IN
    IF i = 0 THEN <<s>>
    ELSE <<SubSeq(s, 1, i - 1)>> \o Split(SubSeq(s, i + 1, Len(s)), sep)

\* Object.fromEntries over [key, value] pairs: a later pair overrides an
\* earlier one with the same key; a pair with one element has value undefined.
RECURSIVE FromEntries(_)
FromEntries(pairs) ==
    IF pairs = <<>> THEN <<>>
    ELSE LET n == Len(pairs)
             p == pairs[n]
             k == p[1]
             v == IF Len(p) >= 2 THEN Str(p[2]) ELSE Undef
             rest == FromEntries(SubSeq(pairs, 1, n - 1))
         IN [x \in (DOMAIN rest) \cup {k} |-> IF x = k THEN v ELSE rest[x]]

\* Decimal value of a string of digits.
RECURSIVE DigitsVal(_)
DigitsVal(s) ==
    IF s = <<>> THEN 0
    ELSE 10 * DigitsVal(SubSeq(s, 1, Len(s) - 1)) + DigitVal(s[Len(s)])

AllDigits(s) == \A i \in 1..Len(s) : s[i] \in Digits

\* Number(string): the empty string is 0, a digit string (with an optional
\* minus sign) its value, anything else over this alphabet NaN.
StrToNumber(s) ==
    IF s = <<>> THEN Num(0)
    ELSE IF AllDigits(s) THEN Num(DigitsVal(s))
    ELSE IF s[1] = "-" /\ Len(s) > 1 /\ AllDigits(Tail(s)) THEN Num(0 - DigitsVal(Tail(s)))
    ELSE NaN

\* Decimal text of a natural number.
RECURSIVE NatToStr(_)
NatToStr(n) ==
    LET c == <<"0", "1", "2", "3", "4", "5", "6", "7", "8", "9">>[(n % 10) + 1]
    IN IF n < 10 THEN <<c>> ELSE NatToStr(n \div 10) \o <<c>>

ObjectObjectText ==
    <<"[", "o", "b", "j", "e", "c", "t", " ", "O", "b", "j", "e", "c", "t", "]">>

\* ToString of a value (String(v)); an array joins its elements with ",".
RECURSIVE ToStr(_)
ToStr(v) ==
    CASE v.t = "str" -> v.s
      [] v.t = "num" -> IF v.n < 0 THEN <<"-">> \o NatToStr(0 - v.n) ELSE NatToStr(v.n)
      [] v.t = "bool" -> IF v.b THEN <<"t", "r", "u", "e">> ELSE <<"f", "a", "l", "s", "e">>
      [] v.t = "null" -> <<"n", "u", "l", "l">>
      [] v.t = "undef" -> <<"u", "n", "d", "e", "f", "i", "n", "e", "d">>
      [] v.t = "obj" -> ObjectObjectText
      [] v.t = "arr" ->
           IF v.xs = <<>> THEN <<>>
           ELSE LET n == Len(v.xs)
                    last == IF v.xs[n].t \in {"null", "undef"} THEN <<>> ELSE ToStr(v.xs[n])
                IN IF n = 1 THEN last
                   ELSE ToStr(Arr(SubSeq(v.xs, 1, n - 1))) \o <<",">> \o last

\* Number(v), the coercion behind the global isNaN.
ToNumber(v) ==
    CASE v.t = "num" -> v
      [] v.t = "str" -> StrToNumber(v.s)
      [] v.t = "bool" -> Num(IF v.b THEN 1 ELSE 0)
      [] v.t = "null" -> Num(0)
      [] v.t = "undef" -> NaN
      [] v.t = "obj" -> NaN
      [] v.t = "arr" -> StrToNumber(ToStr(v))

IsNaN(v) == ToNumber(v) = NaN

(***************************************************************************)
(* JSON.parse over the texts the model feeds to it.                        *)
(***************************************************************************)
TxtObjA1 == <<"{", "\"", "a", "\"", ":", "1", "}">>
TxtEmptyObj == <<"{", "}">>
TxtEmptyArr == <<"[", "]">>
TxtArr5 == <<"[", "5", "]">>
TxtNull == <<"n", "u", "l", "l">>
TxtTrue == <<"t", "r", "u", "e">>
TxtStr5 == <<"\"", "5", "\"">>
TxtBad == <<"{", "b", "a", "d">>

JSONParse(s) ==
    CASE s = TxtObjA1 -> [ok |-> TRUE, v |-> Obj([k \in {<<"a">>} |-> Num(1)])]
      [] s = TxtEmptyObj -> [ok |-> TRUE, v |-> EmptyObj]
      [] s = TxtEmptyArr -> [ok |-> TRUE, v |-> Arr(<<>>)]
      [] s = TxtArr5 -> [ok |-> TRUE, v |-> Arr(<<Num(5)>>)]
      [] s = TxtNull -> [ok |-> TRUE, v |-> Null]
      [] s = TxtTrue -> [ok |-> TRUE, v |-> Bool(TRUE)]
      [] s = TxtStr5 -> [ok |-> TRUE, v |-> Str(<<"5">>)]
      [] s # <<>> /\ AllDigits(s) /\ (Len(s) = 1 \/ s[1] # "0") ->
           [ok |-> TRUE, v |-> Num(DigitsVal(s))]
      [] OTHER -> [ok |-> FALSE]

(***************************************************************************)
(* mapQuery: one entry, then the whole query object.                       *)
(***************************************************************************)
\* value.includes(c): a string searches characters, an array its elements;
\* any other value has no includes method (TypeError).
HasIncludes(v) == v.t \in {"str", "arr"}
ValIncludes(v, c) ==
    IF v.t = "str" THEN Includes(v.s, c)
    ELSE \E i \in 1..Len(v.xs) : v.xs[i] = Str(<<c>>)

Coerce(v) == IF IsNaN(v) THEN v ELSE ToNumber(v)

Thrown(status) == [ok |-> FALSE, status |-> status]
Returned(v) == [ok |-> TRUE, v |-> v]

\* mapEntry that passes a `where` value through when it is not text.
mapEntryKeepStructured(key, value) ==
    IF key = "where"
    THEN IF value.t # "str" THEN Returned(Coerce(value))
         ELSE LET p == JSONParse(ToStr(value)) IN
              IF p.ok THEN Returned(Coerce(p.v)) ELSE Thrown(400)
    ELSE IF ~HasIncludes(value) THEN Thrown(500)
    ELSE IF value.t = "arr"
    THEN IF ValIncludes(value, ",") \/ ValIncludes(value, "-")
         THEN Thrown(500)
         ELSE Returned(Coerce(value))
    ELSE IF ValIncludes(value, ",")
    THEN IF key = "distinct"
         THEN Returned(Coerce(Arr([i \in 1..Len(Split(value.s, ",")) |->
                                      Str(Split(value.s, ",")[i])])))
         ELSE Returned(Coerce(Obj(FromEntries(
                  [i \in 1..Len(Split(value.s, ",")) |->
                      Split(Split(value.s, ",")[i], "-")]))))
    ELSE IF ValIncludes(value, "-")
    THEN Returned(Coerce(Obj(FromEntries(<<Split(value.s, "-")>>))))
    ELSE Returned(Coerce(value))

\* mapEntry that tests for a hyphen before it tests for a comma.
mapEntryHyphenFirst(key, value) ==
    IF key = "where"
    THEN LET p == JSONParse(ToStr(value)) IN
         IF p.ok THEN Returned(Coerce(p.v)) ELSE Thrown(400)
    ELSE IF ~HasIncludes(value) THEN Thrown(500)
    ELSE IF value.t = "arr"
    THEN IF ValIncludes(value, ",") \/ ValIncludes(value, "-")
         THEN Thrown(500)
         ELSE Returned(Coerce(value))
    ELSE IF ValIncludes(value, "-")
    THEN Returned(Coerce(Obj(FromEntries(<<Split(value.s, "-")>>))))
    ELSE IF ValIncludes(value, ",")
    THEN IF key = "distinct"
         THEN Returned(Coerce(Arr([i \in 1..Len(Split(value.s, ",")) |->
                                      Str(Split(value.s, ",")[i])])))
         ELSE Returned(Coerce(Obj(FromEntries(
                  [i \in 1..Len(Split(value.s, ",")) |->
                      Split(Split(value.s, ",")[i], "-")]))))
    ELSE Returned(Coerce(value))

mapEntry(key, value) ==
    IF key = "where"
    THEN LET p == JSONParse(ToStr(value)) IN
         IF p.ok THEN Returned(Coerce(p.v)) ELSE Thrown(400)
    ELSE IF ~HasIncludes(value) THEN Thrown(500)
    ELSE IF value.t = "arr"
    THEN IF ValIncludes(value, ",") \/ ValIncludes(value, "-")
         THEN Thrown(500)
         ELSE Returned(Coerce(value))
    ELSE IF ValIncludes(value, ",")
    THEN IF key = "distinct"
         THEN Returned(Coerce(Arr([i \in 1..Len(Split(value.s, ",")) |->
                                      Str(Split(value.s, ",")[i])])))
         ELSE Returned(Coerce(Obj(FromEntries(
                  [i \in 1..Len(Split(value.s, ",")) |->
                      Split(Split(value.s, ",")[i], "-")]))))
    ELSE IF ValIncludes(value, "-")
    THEN Returned(Coerce(Obj(FromEntries(<<Split(value.s, "-")>>))))
    ELSE Returned(Coerce(value))

mapQuery(query) ==
    IF \E k \in DOMAIN query : ~mapEntry(k, query[k]).ok
    THEN LET bad == CHOOSE k \in DOMAIN query : ~mapEntry(k, query[k]).ok
         IN Thrown(mapEntry(bad, query[bad]).status)
    ELSE Returned([k \in DOMAIN query |-> mapEntry(k, query[k]).v])

(***************************************************************************)
(* Static configuration handed to SystemPanda: one collection with hooks,  *)
(* global and collection webhooks, and the installed plugins.              *)
(***************************************************************************)
Reqs == {"r1", "r2"}

CrudMethods == {"GET", "POST", "PUT", "DELETE"}
OtherMethods == {"PATCH", "HEAD", "OPTIONS", "TRACE", "CONNECT"}
Methods == CrudMethods \cup OtherMethods

Operations == {"create", "read", "update", "delete"}

\* flippedCrudMapping[reqMethod]; a method without an entry gives undefined.
flippedCrudMapping(m) ==
    CASE m = "GET" -> "read"
      [] m = "POST" -> "create"
      [] m = "PUT" -> "update"
      [] m = "DELETE" -> "delete"
      [] OTHER -> "undefined"

beforeOperation == <<"b1", "b2">>
validateInput == <<"v1">>
modifyInput == <<"m1", "m2">>
afterOperation == <<"a1", "a2">>

Phases == {"beforeOperation", "validateInput", "modifyInput", "afterOperation"}

HooksOf(phase) ==
    CASE phase = "beforeOperation" -> beforeOperation
      [] phase = "validateInput" -> validateInput
      [] phase = "modifyInput" -> modifyInput
      [] phase = "afterOperation" -> afterOperation

globalWebhooks == << [name |-> "g1", onOperation |-> {"create", "read"}] >>
webhooks ==
    << [name |-> "w1", onOperation |-> {"update", "delete"}],
       [name |-> "w2", onOperation |-> {"read", "delete"}],
       [name |-> "w3", onOperation |-> {}] >>
mergedWebhooks == globalWebhooks \o webhooks

\* Installed plugins, in registration order.
PluginTitles == <<"p1", "p2">>
Plugins == {PluginTitles[i] : i \in 1..Len(PluginTitles)}

\* models[cKey]: the collection's field template.
models == Obj([k \in {<<"a">>, <<"b">>} |-> Undef])

K(c) == <<c>>
S(c) == Str(<<c>>)

\* Request bodies (req.body) and query strings (req.query) of the requests.
EmptyBody == [data |-> Undef, where |-> Undef, select |-> Undef, skipDuplicates |-> Undef]
Bodies ==
    { EmptyBody,
      [data |-> Obj([k \in {<<"a">>} |-> S("1")]), where |-> S("w"),
       select |-> S("s"), skipDuplicates |-> Undef],
      [data |-> Arr(<< Obj([k \in {<<"a">>} |-> S("1")]), Obj([k \in {<<"c">>} |-> S("3")]) >>),
       where |-> S("w"), select |-> Undef, skipDuplicates |-> Bool(TRUE)] }

Queries ==
    { <<>>,
      [k \in {"where"} |-> Str(TxtObjA1)],
      [k \in {"where"} |-> Str(TxtBad)],
      [k \in {"take"} |-> S("5")],
      [k \in {"orderBy"} |-> Str(<<"x", "-", "a", ",", "y", "-", "d">>)] }

Paths == {"collection", "other"}

(***************************************************************************)
(* State.                                                                  *)
(***************************************************************************)
VARIABLES
    pc,            \* per request: the handler segment that runs next
    req,           \* per request: method, path, query, body as received
    inputData,     \* per request: the req.body object the handler holds
    produced,      \* per request: the inputData the hook chain has produced
    idx,           \* per request: hooks of the current phase already awaited
    log,           \* per request: events in the order they happened
    calls,         \* per request: persistence primitive calls, with arguments
    resultData,    \* per request: the handler's resultData
    res,           \* per request: the response (headersSent, status, body)
    ctx,           \* the one shared Context
    activePlugins, \* plugin(prisma).load().active, captured at boot
    pluginDb,      \* the plugin registry: title -> active flag
    inactiveAtStart, \* per request: plugins inactive in the registry on arrival
    registryAtBoot, \* the registry as plugin(prisma).load() read it at boot
    obs,           \* per request: the Context its latest hook was handed
    payload        \* per request: webhookTriggerPayload, once it is built

vars == <<pc, req, inputData, produced, idx, log, calls, resultData, res, ctx,
          activePlugins, pluginDb, inactiveAtStart, registryAtBoot, obs, payload>>

Absent == [t |-> "absent"]

NoReq == [method |-> "GET", path |-> "other", query |-> <<>>, body |-> EmptyBody]
NoRes == [sent |-> FALSE, status |-> 0, kind |-> "none", body |-> Undef]

Ev(k, ph, n, o) == [k |-> k, ph |-> ph, n |-> n, o |-> o]

\* plugin(prisma).load(): the active plugins of the registry, in order.
RECURSIVE load(_, _)
load(db, titles) ==
    IF titles = <<>> THEN <<>>
    ELSE IF db[Head(titles)] THEN <<Head(titles)>> \o load(db, Tail(titles))
    ELSE load(db, Tail(titles))

\* customVars: {} at construction.  The model tracks two of its keys: `user`,
\* which hook b1 sets to the request it serves, and `plugin`, which only a
\* Context returned by a plugin carries.
NoVars == [user |-> "none", plugin |-> "none"]

InitCtx == [req |-> "app", currentHook |-> "beforeOperation", customVars |-> NoVars]

NoPayload == [event |-> "none", collection |-> "none", data |-> Absent, timestamp |-> "none"]

InitCommon ==
    /\ req = [r \in Reqs |-> NoReq]
    /\ inputData = [r \in Reqs |-> EmptyBody]
    /\ produced = [r \in Reqs |-> EmptyBody]
    /\ idx = [r \in Reqs |-> 0]
    /\ log = [r \in Reqs |-> <<>>]
    /\ calls = [r \in Reqs |-> <<>>]
    /\ resultData = [r \in Reqs |-> Arr(<<>>)]
    /\ res = [r \in Reqs |-> NoRes]
    /\ ctx = InitCtx
    /\ pluginDb = [p \in Plugins |-> TRUE]
    /\ activePlugins = load(pluginDb, PluginTitles)
    /\ inactiveAtStart = [r \in Reqs |-> {}]
    /\ registryAtBoot = pluginDb
    /\ obs = [r \in Reqs |-> InitCtx]
    /\ payload = [r \in Reqs |-> NoPayload]

\* One request at a time is in flight; the second slot is never used.
Init ==
    /\ InitCommon
    /\ pc = [r \in Reqs |-> IF r = "r1" THEN "idle" ELSE "off"]

(***************************************************************************)
(* Helpers of the collection route handler.                                *)
(***************************************************************************)
\* NextPhase with validateInput and modifyInput exchanged.
NextPhaseSwapped(method, phase) ==
    CASE phase = "beforeOperation" -> IF method = "GET" THEN "query" ELSE "modifyInput"
      [] phase = "modifyInput" -> "validateInput"
      [] phase = "validateInput" -> "persist"
      [] phase = "afterOperation" -> "respond"

\* The segment that follows the last hook of a phase.
NextPhase(method, phase) ==
    CASE phase = "beforeOperation" -> IF method = "GET" THEN "query" ELSE "validateInput"
      [] phase = "validateInput" -> "modifyInput"
      [] phase = "modifyInput" -> "persist"
      [] phase = "afterOperation" -> "respond"

\* PluginsToRun over every installed plugin, active or not.
PluginsToRunInstalled(active) == PluginTitles

\* for (const obj of activePlugins) obj.fn(ctx)
PluginsToRun(active) == active

\* What a plugin transform may do when called with the Context: return it
\* ("ok"), throw, return a different Context ("ret": a copy whose
\* customVars.plugin is the plugin's title), or return a promise that
\* settles later ("async").
SyncBehaviours == {"ok", "throw"}
AllBehaviours == {"ok", "ret", "async"}

\* Index of the first transform that throws, 0 if none does.
FirstThrow(bs) ==
    IF \E i \in 1..Len(bs) : bs[i] = "throw"
    THEN CHOOSE i \in 1..Len(bs) :
             bs[i] = "throw" /\ \A j \in 1..(i - 1) : bs[j] # "throw"
    ELSE 0

\* RunPlugins that walks the active plugins from the last to the first.
RunPluginsReversed(phase, active, bs) ==
    LET run == PluginsToRun(active)
        failing == FirstThrow(bs)
        last == IF failing = 0 THEN Len(run) ELSE failing
    IN [i \in 1..last |-> Ev("plugin", phase, run[Len(run) + 1 - i], bs[i])]

\* The plugin loop of a phase; bs[i] is what the i-th transform does.  The
\* loop stops at the first transform that throws.
RunPlugins(phase, active, bs) ==
    LET run == PluginsToRun(active)
        failing == FirstThrow(bs)
        last == IF failing = 0 THEN Len(run) ELSE failing
    IN [i \in 1..last |-> Ev("plugin", phase, run[i], bs[i])]

\* AfterThrow that swallows the error and goes on to the response.
AfterThrowRespond(segment) == "respond"

\* AfterThrow that runs the failed segment again.
AfterThrowRetry(segment) == segment

\* catch (err) { next(err) }: the handler does not resume after a throw.
AfterThrow(segment) == "done"

ErrBody == Obj([k \in {<<"success">>, <<"message">>} |->
                   IF k = <<"success">> THEN Bool(FALSE) ELSE S("e")])
NotFoundBody == Obj([k \in {<<"message">>} |-> S("N")])

\* errHandler that writes the 500 body whether or not a response was sent.
errHandlerAlways(resr) ==
    [sent |-> TRUE, status |-> 500, kind |-> "error", body |-> ErrBody]

\* errHandler that only logs.
errHandlerSilent(resr) == resr

\* errHandler: writes the 500 body unless the headers were already sent.
errHandler(resr) ==
    IF ~resr.sent
    THEN [sent |-> TRUE, status |-> 500, kind |-> "error", body |-> ErrBody]
    ELSE resr

ErrEvents(segment, resr) ==
    <<Ev("error", segment, "", "")>> \o
    (IF ~resr.sent THEN <<Ev("respond", segment, "500", "error")>> ELSE <<>>)

\* What a hook may do when awaited.
Outcomes(phase) ==
    CASE phase = "beforeOperation" -> {"true", "false", "throw"}
      [] phase = "validateInput" -> {"ok", "throw"}
      [] phase = "modifyInput" -> {"ret", "mut", "throw"}
      [] phase = "afterOperation" -> {"ok", "throw"}

\* Hook b1 stores the request it serves in ctx.customVars.user.
WritesUser(name) == name = "b1"

HookVal(name) == IF name = "m1" THEN S("x") ELSE S("y")

SetKey(data, k, v) ==
    LET put(f) == [x \in (DOMAIN f) \cup {k} |-> IF x = k THEN v ELSE f[x]] IN
    CASE data.t = "obj" -> Obj(put(data.f))
      [] data.t = "arr" -> Arr([i \in 1..Len(data.xs) |-> Obj(put(data.xs[i].f))])
      [] OTHER -> Obj(put(<<>>))

\* The transformation a modifyInput hook applies to the inputData it is given.
Transform(name, inp) == [inp EXCEPT !.data = SetKey(inp.data, K("a"), HookVal(name))]

\* Object.assign({}, target, src): src's own keys override; undefined is skipped.
Assign(target, src) ==
    IF src.t = "obj"
    THEN Obj([x \in (DOMAIN target.f) \cup (DOMAIN src.f) |->
                 IF x \in DOMAIN src.f THEN src.f[x] ELSE target.f[x]])
    ELSE target

isArr(inp) == inp.data.t = "arr"

mergeData(inp) ==
    IF isArr(inp)
    THEN Arr([i \in 1..Len(inp.data.xs) |-> Assign(models, inp.data.xs[i])])
    ELSE Assign(models, inp.data)

\* Primitive that always takes the single-record form.
PrimitiveSingle(method, arr) ==
    CASE method = "POST" -> "create"
      [] method = "PUT" -> "update"
      [] method = "DELETE" -> "delete"
      [] OTHER -> "none"

Primitive(method, arr) ==
    CASE method = "POST" -> IF arr THEN "createMany" ELSE "create"
      [] method = "PUT" -> IF arr THEN "updateMany" ELSE "update"
      [] method = "DELETE" -> IF arr THEN "deleteMany" ELSE "delete"
      [] OTHER -> "none"

PersistArgs(prim, inp) ==
    CASE prim = "createMany" ->
           [prim |-> prim, data |-> mergeData(inp), where |-> Absent,
            select |-> Absent, skipDuplicates |-> inp.skipDuplicates, query |-> Absent]
      [] prim = "create" ->
           [prim |-> prim, data |-> mergeData(inp), where |-> Absent,
            select |-> inp.select, skipDuplicates |-> Absent, query |-> Absent]
      [] prim \in {"update", "updateMany"} ->
           [prim |-> prim, data |-> mergeData(inp), where |-> inp.where,
            select |-> Absent, skipDuplicates |-> Absent, query |-> Absent]
      [] prim \in {"delete", "deleteMany"} ->
           [prim |-> prim, data |-> Absent, where |-> inp.where,
            select |-> Absent, skipDuplicates |-> Absent, query |-> Absent]

\* A call as the persistence layer sees it: the arguments and what it returned.
Call(args, result) ==
    [prim |-> args.prim, data |-> args.data, where |-> args.where, select |-> args.select,
     skipDuplicates |-> args.skipDuplicates, query |-> args.query, result |-> result]

FindManyArgs(q) ==
    [prim |-> "findMany", data |-> Absent, where |-> Absent,
     select |-> Absent, skipDuplicates |-> Absent, query |-> q]

Row == Obj([k \in {<<"a">>} |-> S("1")])
Count == Obj([k \in {<<"count">>} |-> Num(1)])

\* What the persistence layer may return.
ResultsOf(prim) ==
    CASE prim = "findMany" -> {Arr(<<>>), Arr(<<Row>>)}
      [] prim \in {"create", "update", "delete"} -> {Row}
      [] OTHER -> {Count}

\* ResponseBody that drops the rows.
ResponseBodyEmpty(result) == Arr(<<>>)

\* res.json(resultData)
ResponseBody(result) == result

\* WebhookMatches that ignores onOperation.
WebhookMatchesAny(obj, operation) == TRUE

\* obj.onOperation.includes(flippedCrudMapping[reqMethod])
WebhookMatches(obj, operation) == operation \in obj.onOperation

\* resultData.length > 0 ? resultData : null.  Only a list has a length; for
\* a single record or a {count} object `undefined > 0` is false.
WebhookData(result) ==
    IF result.t = "arr" /\ Len(result.xs) > 0 THEN result ELSE Null

\* The envelope handed to every triggered webhook.
webhookTriggerPayload(method, result) ==
    [event |-> flippedCrudMapping(method), collection |-> "cKey",
     data |-> WebhookData(result), timestamp |-> "ISO-8601"]

RECURSIVE Fanout(_, _)
Fanout(hooks, operation) ==
    IF hooks = <<>> THEN <<>>
    ELSE (IF WebhookMatches(Head(hooks), operation)
          THEN <<Ev("webhook", "fanout", Head(hooks).name, operation)>>
          ELSE <<>>) \o Fanout(Tail(hooks), operation)

(***************************************************************************)
(* Actions.  A handler segment runs from one await to the next.            *)
(***************************************************************************)
\* A request arrives: the rebinding middleware points the shared Context at
\* it, and the router selects the collection handler or the catch-all route.
ArriveWith(r, methods, paths, queries, bodies) ==
    /\ pc[r] = "idle"
    /\ \E m \in methods, p \in paths, q \in queries, b \in bodies :
         /\ m \in {"GET"} \cup OtherMethods => b = EmptyBody
         /\ m # "GET" => q = <<>>
         /\ p = "other" => (m = "GET" /\ q = <<>>)
         /\ req' = [req EXCEPT ![r] = [method |-> m, path |-> p, query |-> q, body |-> b]]
         /\ inputData' = [inputData EXCEPT ![r] = b]
         /\ produced' = [produced EXCEPT ![r] = b]
         /\ pc' = [pc EXCEPT ![r] = IF p = "collection" THEN "beforeOperation" ELSE "notfound"]
    /\ ctx' = [ctx EXCEPT !.req = r]
    /\ inactiveAtStart' = [inactiveAtStart EXCEPT ![r] = {p \in Plugins : ~pluginDb[p]}]
    /\ UNCHANGED <<idx, log, calls, resultData, res, activePlugins, pluginDb, registryAtBoot,
                   obs, payload>>

Arrive(r) == ArriveWith(r, Methods, Paths, Queries, Bodies)

\* .all("*"): no collection route matched.
NotFound(r) ==
    /\ pc[r] = "notfound"
    /\ res' = [res EXCEPT ![r] = [sent |-> TRUE, status |-> 404, kind |-> "notfound",
                                  body |-> NotFoundBody]]
    /\ log' = [log EXCEPT ![r] = @ \o <<Ev("respond", "notfound", "404", "notfound")>>]
    /\ pc' = [pc EXCEPT ![r] = "done"]
    /\ UNCHANGED <<req, inputData, produced, idx, calls, resultData, ctx,
                   activePlugins, pluginDb, inactiveAtStart, registryAtBoot, obs, payload>>

\* One awaited hook of a phase.  Before the first hook of the phase the
\* handler sets the cursor and calls every active plugin with the shared
\* Context, neither awaiting nor keeping what the call returns; a plugin or
\* the hook may throw.  The hook is handed operationArgs, whose ctx is the
\* shared Context.
HookStep(r, phase, behaviours) ==
    /\ pc[r] = phase
    /\ LET hooks == HooksOf(phase)
           name == hooks[idx[r] + 1]
           first == idx[r] = 0
           seen == IF first THEN [ctx EXCEPT !.currentHook = phase] ELSE ctx
           n == IF first THEN Len(PluginsToRun(activePlugins)) ELSE 0
       IN
       \E bs \in [1..n -> behaviours], o \in Outcomes(phase) :
            LET prelude == IF first THEN RunPlugins(phase, activePlugins, bs) ELSE <<>> IN
            IF FirstThrow(bs) > 0
            THEN /\ o = "throw"
                 /\ log' = [log EXCEPT ![r] = @ \o prelude \o ErrEvents(phase, res[r])]
                 /\ res' = [res EXCEPT ![r] = errHandler(@)]
                 /\ pc' = [pc EXCEPT ![r] = AfterThrow(phase)]
                 /\ ctx' = seen
                 /\ UNCHANGED <<idx, inputData, produced, obs>>
            ELSE IF o = "throw"
            THEN /\ log' = [log EXCEPT ![r] = @ \o prelude \o <<Ev("hook", phase, name, o)>>
                                                \o ErrEvents(phase, res[r])]
                 /\ res' = [res EXCEPT ![r] = errHandler(@)]
                 /\ pc' = [pc EXCEPT ![r] = AfterThrow(phase)]
                 /\ ctx' = seen
                 /\ obs' = [obs EXCEPT ![r] = seen]
                 /\ UNCHANGED <<idx, inputData, produced>>
            ELSE /\ log' = [log EXCEPT ![r] = @ \o prelude \o <<Ev("hook", phase, name, o)>>]
                 /\ inputData' = IF o = "mut"
                                 THEN [inputData EXCEPT ![r] = Transform(name, @)]
                                 ELSE inputData
                 /\ produced' = IF o \in {"ret", "mut"}
                                THEN [produced EXCEPT ![r] = Transform(name, inputData[r])]
                                ELSE produced
                 /\ IF idx[r] + 1 = Len(hooks)
                    THEN /\ pc' = [pc EXCEPT ![r] = NextPhase(req[r].method, phase)]
                         /\ idx' = [idx EXCEPT ![r] = 0]
                    ELSE /\ pc' = pc
                         /\ idx' = [idx EXCEPT ![r] = @ + 1]
                 /\ res' = res
                 /\ obs' = [obs EXCEPT ![r] = seen]
                 /\ ctx' = IF WritesUser(name)
                           THEN [seen EXCEPT !.customVars.user = r]
                           ELSE seen
    /\ UNCHANGED <<req, calls, resultData, activePlugins, pluginDb, inactiveAtStart,
                   registryAtBoot, payload>>

BeforeOperation(r) == HookStep(r, "beforeOperation", SyncBehaviours)
ValidateInput(r) == HookStep(r, "validateInput", SyncBehaviours)
ModifyInput(r) == HookStep(r, "modifyInput", SyncBehaviours)
AfterOperation(r) == HookStep(r, "afterOperation", SyncBehaviours)

\* GET: mapQuery(req.query), then await query.findMany(mappedQuery).
Query(r) ==
    /\ pc[r] = "query"
    /\ LET mq == mapQuery(req[r].query) IN
       IF ~mq.ok
       THEN /\ log' = [log EXCEPT ![r] = @ \o ErrEvents("query", res[r])]
            /\ res' = [res EXCEPT ![r] = errHandler(@)]
            /\ pc' = [pc EXCEPT ![r] = AfterThrow("query")]
            /\ UNCHANGED <<calls, resultData>>
       ELSE \/ \E rows \in ResultsOf("findMany") :
                 /\ calls' = [calls EXCEPT ![r] = Append(@, Call(FindManyArgs(mq.v), rows))]
                 /\ resultData' = [resultData EXCEPT ![r] = rows]
                 /\ log' = [log EXCEPT ![r] = Append(@, Ev("persist", "query", "findMany", "ok"))]
                 /\ pc' = [pc EXCEPT ![r] = "afterOperation"]
                 /\ res' = res
            \/ /\ calls' = [calls EXCEPT ![r] = Append(@, Call(FindManyArgs(mq.v), Absent))]
               /\ log' = [log EXCEPT ![r] = @ \o <<Ev("persist", "query", "findMany", "throw")>>
                                                \o ErrEvents("query", res[r])]
               /\ res' = [res EXCEPT ![r] = errHandler(@)]
               /\ pc' = [pc EXCEPT ![r] = AfterThrow("query")]
               /\ resultData' = resultData
    /\ UNCHANGED <<req, inputData, produced, idx, ctx, activePlugins, pluginDb, inactiveAtStart,
                   registryAtBoot, obs, payload>>

\* Not GET: merge the field template with inputData.data and await the
\* primitive selected by the method.  No branch matches a method other than
\* POST, PUT, DELETE: the handler then goes on to afterOperation with no call.
Persist(r) ==
    /\ pc[r] = "persist"
    /\ LET prim == Primitive(req[r].method, isArr(inputData[r])) IN
       IF prim = "none"
       THEN /\ pc' = [pc EXCEPT ![r] = "afterOperation"]
            /\ UNCHANGED <<calls, resultData, log, res>>
       ELSE \/ \E result \in ResultsOf(prim) :
                 /\ calls' = [calls EXCEPT ![r] =
                                 Append(@, Call(PersistArgs(prim, inputData[r]), result))]
                 /\ resultData' = [resultData EXCEPT ![r] = result]
                 /\ log' = [log EXCEPT ![r] = Append(@, Ev("persist", "persist", prim, "ok"))]
                 /\ pc' = [pc EXCEPT ![r] = "afterOperation"]
                 /\ res' = res
            \/ /\ calls' = [calls EXCEPT ![r] =
                                Append(@, Call(PersistArgs(prim, inputData[r]), Absent))]
               /\ log' = [log EXCEPT ![r] = @ \o <<Ev("persist", "persist", prim, "throw")>>
                                                \o ErrEvents("persist", res[r])]
               /\ res' = [res EXCEPT ![r] = errHandler(@)]
               /\ pc' = [pc EXCEPT ![r] = AfterThrow("persist")]
               /\ resultData' = resultData
    /\ UNCHANGED <<req, inputData, produced, idx, ctx, activePlugins, pluginDb, inactiveAtStart,
                   registryAtBoot, obs, payload>>

\* What webhook(obj).trigger(payload) may do when called: return, or throw
\* into the forEach callback that called it.
QuietTriggers == {"ok"}
AllTriggers == {"ok", "throw"}

\* The forEach over mergedWebhooks, ts[i] being what the i-th trigger call
\* does: a throw leaves the loop, so the webhooks after it are not reached.
FanoutUntil(events, ts) ==
    LET failing == FirstThrow(ts) IN
    IF failing = 0 THEN events
    ELSE SubSeq(events, 1, failing - 1) \o <<[events[failing] EXCEPT !.o = "throw"]>>

\* res.json(resultData), then the webhook fan-out over mergedWebhooks, all
\* inside the handler's try block: a trigger that throws goes to
\* catch (err) { next(err) } after the response has been sent.
RespondWith(r, triggers) ==
    /\ pc[r] = "respond"
    /\ LET sent == [sent |-> TRUE, status |-> 200, kind |-> "data",
                    body |-> ResponseBody(resultData[r])]
           events == Fanout(mergedWebhooks, flippedCrudMapping(req[r].method))
       IN
       \E ts \in [1..Len(events) -> triggers] :
           IF FirstThrow(ts) = 0
           THEN /\ res' = [res EXCEPT ![r] = sent]
                /\ log' = [log EXCEPT ![r] = @ \o <<Ev("respond", "respond", "200", "data")>>
                                                \o events]
                /\ pc' = [pc EXCEPT ![r] = "done"]
           ELSE /\ res' = [res EXCEPT ![r] = errHandler(sent)]
                /\ log' = [log EXCEPT ![r] = @ \o <<Ev("respond", "respond", "200", "data")>>
                                                \o FanoutUntil(events, ts)
                                                \o ErrEvents("fanout", sent)]
                /\ pc' = [pc EXCEPT ![r] = AfterThrow("respond")]
    /\ payload' = [payload EXCEPT ![r] = webhookTriggerPayload(req[r].method, resultData[r])]
    /\ UNCHANGED <<req, inputData, produced, idx, calls, resultData, ctx,
                   activePlugins, pluginDb, inactiveAtStart, registryAtBoot, obs>>

Respond(r) == RespondWith(r, QuietTriggers)

\* The request is over; its slot serves the next one.
Finish(r) ==
    /\ pc[r] = "done"
    /\ pc' = [pc EXCEPT ![r] = "idle"]
    /\ req' = [req EXCEPT ![r] = NoReq]
    /\ inputData' = [inputData EXCEPT ![r] = EmptyBody]
    /\ produced' = [produced EXCEPT ![r] = EmptyBody]
    /\ idx' = [idx EXCEPT ![r] = 0]
    /\ log' = [log EXCEPT ![r] = <<>>]
    /\ calls' = [calls EXCEPT ![r] = <<>>]
    /\ resultData' = [resultData EXCEPT ![r] = Arr(<<>>)]
    /\ res' = [res EXCEPT ![r] = NoRes]
    /\ inactiveAtStart' = [inactiveAtStart EXCEPT ![r] = {}]
    /\ obs' = [obs EXCEPT ![r] = InitCtx]
    /\ payload' = [payload EXCEPT ![r] = NoPayload]
    /\ UNCHANGED <<ctx, activePlugins, pluginDb, registryAtBoot>>

\* GET /plugins/:title/enable|disable: plugin(prisma)[enableOrDisable](title)
\* changes the registry; the list captured at boot is not reloaded.
TogglePlugin(title, enable) ==
    /\ pluginDb' = [pluginDb EXCEPT ![title] = enable]
    /\ ctx' = [ctx EXCEPT !.req = "admin"]
    /\ UNCHANGED <<pc, req, inputData, produced, idx, log, calls, resultData, res,
                   activePlugins, inactiveAtStart, registryAtBoot, obs, payload>>

EnablePlugin == \E title \in Plugins : TogglePlugin(title, TRUE)
DisablePlugin == \E title \in Plugins : TogglePlugin(title, FALSE)

\* The application is restarted: SystemPanda runs again and loads the plugins.
Restart ==
    /\ activePlugins' = load(pluginDb, PluginTitles)
    /\ registryAtBoot' = pluginDb
    /\ ctx' = InitCtx
    /\ pc' = [r \in Reqs |-> IF pc[r] = "off" THEN "off" ELSE "idle"]
    /\ req' = [r \in Reqs |-> NoReq]
    /\ inputData' = [r \in Reqs |-> EmptyBody]
    /\ produced' = [r \in Reqs |-> EmptyBody]
    /\ idx' = [r \in Reqs |-> 0]
    /\ log' = [r \in Reqs |-> <<>>]
    /\ calls' = [r \in Reqs |-> <<>>]
    /\ resultData' = [r \in Reqs |-> Arr(<<>>)]
    /\ res' = [r \in Reqs |-> NoRes]
    /\ inactiveAtStart' = [r \in Reqs |-> {}]
    /\ obs' = [r \in Reqs |-> InitCtx]
    /\ payload' = [r \in Reqs |-> NoPayload]
    /\ UNCHANGED pluginDb

Next ==
    \/ \E r \in Reqs : Arrive(r)
    \/ \E r \in Reqs : NotFound(r)
    \/ \E r \in Reqs : BeforeOperation(r)
    \/ \E r \in Reqs : ValidateInput(r)
    \/ \E r \in Reqs : ModifyInput(r)
    \/ \E r \in Reqs : Query(r)
    \/ \E r \in Reqs : Persist(r)
    \/ \E r \in Reqs : AfterOperation(r)
    \/ \E r \in Reqs : Respond(r)
    \/ \E r \in Reqs : Finish(r)
    \/ EnablePlugin
    \/ DisablePlugin
    \/ Restart

Spec == Init /\ [][Next]_vars

(***************************************************************************)
(* Two requests in flight at once: both slots accept requests, and each    *)
(* handler segment of one may run between any two segments of the other.   *)
(* The requests are reads of the collection.                               *)
(***************************************************************************)
ArriveConc(r) == ArriveWith(r, {"GET"}, {"collection"}, {<<>>}, {EmptyBody})

InitConc ==
    /\ InitCommon
    /\ pc = [r \in Reqs |-> "idle"]

NextConc ==
    \/ \E r \in Reqs : ArriveConc(r)
    \/ \E r \in Reqs : BeforeOperation(r)
    \/ \E r \in Reqs : Query(r)
    \/ \E r \in Reqs : AfterOperation(r)
    \/ \E r \in Reqs : Respond(r)
    \/ \E r \in Reqs : Finish(r)

SpecConc == InitConc /\ [][NextConc]_vars

(***************************************************************************)
(* Plugins in full: a transform may also return a different Context or a   *)
(* promise (PluginExportFn = (ctx) => Context | Promise<Context>).  The    *)
(* handler calls obj.fn(ctx) without awaiting it, so a returned promise    *)
(* settles at some later point of the request.  One read is in flight.     *)
(***************************************************************************)
\* Positions in the log of the plugin promises that have not settled yet.
Unsettled(l) ==
    {i \in 1..Len(l) :
        /\ l[i].k = "plugin" /\ l[i].o = "async"
        /\ ~\E j \in (i + 1)..Len(l) :
               l[j].k = "settle" /\ l[j].ph = l[i].ph /\ l[j].n = l[i].n}

\* The promise a plugin transform returned settles.
PluginSettles(r) ==
    /\ pc[r] \notin {"idle", "off"}
    /\ \E i \in Unsettled(log[r]) :
         log' = [log EXCEPT ![r] = Append(@, Ev("settle", log[r][i].ph, log[r][i].n, "ok"))]
    /\ UNCHANGED <<pc, req, inputData, produced, idx, calls, resultData, res, ctx,
                   activePlugins, pluginDb, inactiveAtStart, registryAtBoot, obs, payload>>

ArrivePlugins(r) == ArriveWith(r, {"GET"}, {"collection"}, {<<>>}, {EmptyBody})

BeforeOperationPlugins(r) == HookStep(r, "beforeOperation", AllBehaviours)
AfterOperationPlugins(r) == HookStep(r, "afterOperation", AllBehaviours)

NextPlugins ==
    \/ \E r \in Reqs : ArrivePlugins(r)
    \/ \E r \in Reqs : BeforeOperationPlugins(r)
    \/ \E r \in Reqs : Query(r)
    \/ \E r \in Reqs : AfterOperationPlugins(r)
    \/ \E r \in Reqs : Respond(r)
    \/ \E r \in Reqs : Finish(r)
    \/ \E r \in Reqs : PluginSettles(r)

SpecPlugins == Init /\ [][NextPlugins]_vars

(***************************************************************************)
(* Webhook deliveries that fail: a trigger call may throw.  One request is *)
(* in flight, a read (webhooks g1 and w2 match) or a delete (w1 and w2).   *)
(***************************************************************************)
WebhookBodies == {b \in Bodies : b.data.t = "obj"}

ArriveWebhooks(r) ==
    \/ ArriveWith(r, {"GET"}, {"collection"}, {<<>>}, {EmptyBody})
    \/ ArriveWith(r, {"DELETE"}, {"collection"}, {<<>>}, WebhookBodies)

RespondThrowing(r) == RespondWith(r, AllTriggers)

NextWebhooks ==
    \/ \E r \in Reqs : ArriveWebhooks(r)
    \/ \E r \in Reqs : BeforeOperation(r)
    \/ \E r \in Reqs : ValidateInput(r)
    \/ \E r \in Reqs : ModifyInput(r)
    \/ \E r \in Reqs : Query(r)
    \/ \E r \in Reqs : Persist(r)
    \/ \E r \in Reqs : AfterOperation(r)
    \/ \E r \in Reqs : RespondThrowing(r)
    \/ \E r \in Reqs : Finish(r)

SpecWebhooks == Init /\ [][NextWebhooks]_vars

(***************************************************************************)
(* mapQuery over a bounded set of query objects: a read arrives with one   *)
(* query entry, either every text of at most MaxLen characters under a     *)
(* list-valued or pair-valued key, or a `where` entry that is JSON text or *)
(* an object the query-string parser has already built (?where[a]=1).      *)
(***************************************************************************)
MaxLen == 4

QChars == {"a", "5", ",", "-"}
Texts(n) == UNION {[1..m -> QChars] : m \in 0..n}

WhereInputs ==
    { Str(TxtObjA1), Str(TxtBad), Str(TxtArr5), Str(TxtNull), Str(<<"5">>),
      Str(TxtEmptyArr), Str(TxtTrue), Str(TxtStr5),
      Obj([k \in {<<"a">>} |-> Num(1)]), Obj([k \in {<<"a">>} |-> S("1")]) }

QueryInputs ==
    {[k \in {key} |-> Str(s)] : key \in {"distinct", "orderBy"}, s \in Texts(MaxLen)}
    \cup {[k \in {"where"} |-> v] : v \in WhereInputs}
    \cup Queries

ArriveQuery(r) == ArriveWith(r, {"GET"}, {"collection"}, QueryInputs, {EmptyBody})

NextQuery ==
    \/ \E r \in Reqs : ArriveQuery(r)
    \/ \E r \in Reqs : BeforeOperation(r)
    \/ \E r \in Reqs : Query(r)
    \/ \E r \in Reqs : AfterOperation(r)
    \/ \E r \in Reqs : Respond(r)
    \/ \E r \in Reqs : Finish(r)

SpecQuery == Init /\ [][NextQuery]_vars

(***************************************************************************)
(* Reading a request's log.                                                *)
(***************************************************************************)
OnCollection(r) == pc[r] \notin {"idle", "off"} /\ req[r].path = "collection"

IsHook(e) == e.k = "hook"
IsPersist(e) == e.k = "persist"

HookRan(r) == \E i \in 1..Len(log[r]) : IsHook(log[r][i])
PluginRan(r) == \E i \in 1..Len(log[r]) : log[r][i].k = "plugin"
Errored(r) == \E i \in 1..Len(log[r]) : log[r][i].k = "error"

RECURSIVE NamesOf(_, _)
NamesOf(l, kinds) ==
    IF l = <<>> THEN <<>>
    ELSE (IF Head(l).k \in kinds THEN <<Head(l).n>> ELSE <<>>) \o NamesOf(Tail(l), kinds)

Rank(e) ==
    CASE e.k \in {"plugin", "hook"} /\ e.ph = "beforeOperation" -> 1
      [] e.k \in {"plugin", "hook"} /\ e.ph = "validateInput" -> 2
      [] e.k \in {"plugin", "hook"} /\ e.ph = "modifyInput" -> 3
      [] e.k = "persist" -> 4
      [] e.k \in {"plugin", "hook"} /\ e.ph = "afterOperation" -> 5
      [] e.k \in {"respond", "error"} -> 6
      [] e.k = "webhook" -> 7

(***************************************************************************)
(* C1.  If a beforeOperation hook returns false, no persistence primitive  *)
(* is called for that request and no afterOperation hook runs.             *)
(***************************************************************************)
Vetoed(r) ==
    \E i \in 1..Len(log[r]) :
        IsHook(log[r][i]) /\ log[r][i].ph = "beforeOperation" /\ log[r][i].o = "false"

C1_VetoBlocksPersistence ==
    \A r \in Reqs :
        Vetoed(r) =>
            /\ calls[r] = <<>>
            /\ ~\E i \in 1..Len(log[r]) :
                   IsHook(log[r][i]) /\ log[r][i].ph = "afterOperation"

(***************************************************************************)
(* C2.  Once the first beforeOperation hook has returned false, no later   *)
(* hook of any phase runs in that request.                                 *)
(***************************************************************************)
C2_VetoShortCircuits ==
    \A r \in Reqs : \A i \in 1..Len(log[r]) :
        (IsHook(log[r][i]) /\ log[r][i].ph = "beforeOperation" /\ log[r][i].o = "false")
            => \A j \in (i + 1)..Len(log[r]) : ~IsHook(log[r][j])

(***************************************************************************)
(* C3.  The dispatcher visits its states in strict order: for a write all  *)
(* beforeOperation, then all validateInput, then all modifyInput hooks,    *)
(* then the persistence call, then all afterOperation hooks, then the      *)
(* response, then the webhook fan-out; for a read all beforeOperation      *)
(* hooks, the query, all afterOperation hooks, the response, the fan-out,  *)
(* and no validateInput or modifyInput hook.                               *)
(***************************************************************************)
HooksUpTo(l, n) == NamesOf(SubSeq(l, 1, n), {"hook"})

C3_StrictOrder ==
    \A r \in Reqs :
        OnCollection(r) =>
            LET l == log[r]
                m == req[r].method
                pre == IF m = "GET" THEN beforeOperation
                       ELSE beforeOperation \o validateInput \o modifyInput
            IN
            /\ \A i, j \in 1..Len(l) : i < j => Rank(l[i]) <= Rank(l[j])
            /\ \A i \in 1..Len(l) :
                 /\ IsPersist(l[i]) => HooksUpTo(l, i) = pre
                 /\ (l[i].k = "respond" /\ l[i].o = "data") =>
                        /\ HooksUpTo(l, i) = pre \o afterOperation
                        /\ m \in CrudMethods => \E j \in 1..(i - 1) : IsPersist(l[j])
                 /\ (m = "GET" /\ l[i].k \in {"plugin", "hook"}) =>
                        l[i].ph \in {"beforeOperation", "afterOperation"}
                 /\ IsPersist(l[i]) => (m = "GET" <=> l[i].n = "findMany")

C3_Witness ==
    \E r \in Reqs :
        /\ pc[r] = "done"
        /\ req[r].method = "PUT"
        /\ res[r].kind = "data"
        /\ Len(log[r]) > 0
        /\ log[r][Len(log[r])].k = "webhook"

(***************************************************************************)
(* C4.  For every write request the data passed to the persistence         *)
(* primitive equals the field defaults merged with the final               *)
(* inputData.data the modifyInput hooks produced.                          *)
(***************************************************************************)
DefaultsMergedWith(data) ==
    LET one(x) == IF x.t = "obj"
                  THEN Obj([k \in (DOMAIN models.f) \cup (DOMAIN x.f) |->
                               IF k \in DOMAIN x.f THEN x.f[k] ELSE models.f[k]])
                  ELSE models
    IN IF data.t = "arr" THEN Arr([i \in 1..Len(data.xs) |-> one(data.xs[i])])
       ELSE one(data)

C4_PersistedIsFinalInput ==
    \A r \in Reqs : \A i \in 1..Len(calls[r]) :
        calls[r][i].prim \in {"create", "createMany", "update", "updateMany"} =>
            calls[r][i].data = DefaultsMergedWith(produced[r].data)

(***************************************************************************)
(* C5.  A read whose `where` entry is not valid JSON is answered with      *)
(* status 400, with no persistence call and no hook of any phase run.      *)
(***************************************************************************)
MalformedWhere(r) ==
    /\ OnCollection(r)
    /\ req[r].method = "GET"
    /\ "where" \in DOMAIN req[r].query
    /\ ~JSONParse(ToStr(req[r].query["where"])).ok

C5_MalformedWhereStopsEarly ==
    \A r \in Reqs :
        MalformedWhere(r) =>
            /\ calls[r] = <<>>
            /\ ~HookRan(r)
            /\ pc[r] = "done" => res[r].status = 400

(***************************************************************************)
(* C6.  GET, POST, PUT, DELETE map one-to-one onto read, create, update,   *)
(* delete, and any other method on a collection route is answered with    *)
(* 404 "Not Found." without going through the hook pipeline.               *)
(***************************************************************************)
C6_UnknownMethodIs404 ==
    /\ \A op \in Operations : \E m \in CrudMethods : flippedCrudMapping(m) = op
    /\ \A m1, m2 \in CrudMethods :
           flippedCrudMapping(m1) = flippedCrudMapping(m2) => m1 = m2
    /\ \A r \in Reqs :
           (OnCollection(r) /\ req[r].method \in OtherMethods) =>
               /\ ~HookRan(r)
               /\ pc[r] = "done" => (res[r].status = 404 /\ res[r].body = NotFoundBody)

(***************************************************************************)
(* C7.  A webhook of the merged list (global, then collection) is          *)
(* triggered only if its onOperation contains the executed operation,      *)
(* every such webhook is triggered, and none before the response.          *)
(***************************************************************************)
RECURSIVE MatchingNames(_, _)
MatchingNames(hooks, operation) ==
    IF hooks = <<>> THEN <<>>
    ELSE (IF operation \in Head(hooks).onOperation THEN <<Head(hooks).name>> ELSE <<>>)
         \o MatchingNames(Tail(hooks), operation)

C8_AtMostOnePersistenceCall ==
    \A r \in Reqs :
        /\ Len(calls[r]) <= 1
        /\ Len(NamesOf(log[r], {"persist"})) <= 1

C8_Witness ==
    \E r \in Reqs :
        /\ pc[r] = "done"
        /\ res[r].kind = "error"
        /\ Len(calls[r]) = 1
        /\ calls[r][1].result = Absent

(***************************************************************************)
(* C9.  A read in which every beforeOperation hook allows the operation    *)
(* (and no step fails) calls findMany exactly once with the normalised     *)
(* query and answers with exactly what findMany returned.                  *)
(***************************************************************************)
C9_ReadReturnsFindManyVerbatim ==
    \A r \in Reqs :
        (OnCollection(r) /\ req[r].method = "GET") =>
            /\ \A i \in 1..Len(calls[r]) :
                 /\ calls[r][i].prim = "findMany"
                 /\ mapQuery(req[r].query).ok
                 /\ calls[r][i].query = mapQuery(req[r].query).v
            /\ (pc[r] = "done" /\ ~Vetoed(r) /\ ~Errored(r)) =>
                 /\ Len(calls[r]) = 1
                 /\ res[r].sent /\ res[r].status = 200
                 /\ res[r].body = calls[r][1].result

C9_Witness ==
    \E r \in Reqs :
        /\ pc[r] = "done"
        /\ req[r].method = "GET"
        /\ OnCollection(r)
        /\ ~Vetoed(r) /\ ~Errored(r)
        /\ "take" \in DOMAIN req[r].query
        /\ Len(calls[r]) = 1
        /\ calls[r][1].query["take"] = Num(5)
        /\ res[r].body = Arr(<<Row>>)

(***************************************************************************)
(* C10.  Disabled plugins never run: a request that starts after a plugin  *)
(* was disabled executes that plugin's transform in no phase.              *)
(***************************************************************************)
C10_DisabledNeverRun ==
    \A r \in Reqs : \A i \in 1..Len(log[r]) :
        log[r][i].k = "plugin" => log[r][i].n \notin inactiveAtStart[r]

\* C10 as amended: a request runs, in every phase it enters, exactly the
\* plugins that were active in the registry when the application last
\* loaded them; a plugin disabled since then keeps running until a restart,
\* and a plugin disabled before the last restart never runs.
PluginsOfPhase(l, phase) ==
    NamesOf(SelectSeq(l, LAMBDA e : e.ph = phase), {"plugin"})

C10_DisabledAfterRestart ==
    \A r \in Reqs :
        /\ \A i \in 1..Len(log[r]) :
             log[r][i].k = "plugin" => registryAtBoot[log[r][i].n]
        /\ \A i \in 1..Len(log[r]) :
             IsHook(log[r][i]) =>
                 PluginsOfPhase(log[r], log[r][i].ph) = load(registryAtBoot, PluginTitles)

C10_Witness ==
    \E r \in Reqs :
        /\ pc[r] = "done"
        /\ "p1" \in inactiveAtStart[r]
        /\ ~registryAtBoot["p1"]
        /\ NamesOf(log[r], {"plugin"}) = <<"p2", "p2">>

(***************************************************************************)
(* C11.  Under every interleaving of two in-flight requests, each hook and *)
(* plugin transform of a request R is handed a Context whose request and   *)
(* response pair is R's own, for the whole of R's pipeline.                *)
(***************************************************************************)
C11_OwnRequestPair ==
    \A r \in Reqs : HookRan(r) => obs[r].req = r

(***************************************************************************)
(* C12.  customVars is isolated per request: a value a hook wrote during   *)
(* request A is never seen by a hook of a different request B, whether B   *)
(* runs concurrently with A or starts after A has finished.                *)
(***************************************************************************)
C12_CustomVarsIsolated ==
    \A r \in Reqs : HookRan(r) => obs[r].customVars.user \in {"none", r}

(***************************************************************************)
(* C13.  Within one request no hook begins before the hook before it and   *)
(* every plugin transform before it have completed, their asynchronous     *)
(* work included: a transform that returned a promise has completed only   *)
(* once the promise has settled.                                           *)
(***************************************************************************)
C13_HookAfterPluginsSettled ==
    \A r \in Reqs : \A i \in 1..Len(log[r]) :
        IsHook(log[r][i]) =>
            \A j \in 1..(i - 1) :
                (log[r][j].k = "plugin" /\ log[r][j].o = "async") =>
                    \E m \in (j + 1)..(i - 1) :
                        /\ log[r][m].k = "settle"
                        /\ log[r][m].ph = log[r][j].ph
                        /\ log[r][m].n = log[r][j].n

(***************************************************************************)
(* C14.  For a key other than `where`, mapQuery maps a value with a comma  *)
(* under `distinct` to the list of its comma-separated parts, a value with *)
(* a comma under any other key to the mapping built from its hyphen-       *)
(* separated field-direction pairs, a value with no comma and a hyphen to  *)
(* the one-entry mapping {subKey: subValue}, and a remaining value that    *)
(* parses as a number (as Number reads it, so the empty text is 0) to that *)
(* number, leaving other strings unchanged.                                *)
(***************************************************************************)
RECURSIVE Join(_, _)
Join(xs, sep) ==
    IF xs = <<>> THEN <<>>
    ELSE IF Len(xs) = 1 THEN xs[1]
    ELSE xs[1] \o <<sep>> \o Join(Tail(xs), sep)

\* The text before the first sep of p, and the text after it up to the next.
FirstAt(p, sep) == CHOOSE i \in 1..Len(p) : p[i] = sep /\ \A j \in 1..(i - 1) : p[j] # sep
Field(p) == IF Includes(p, "-") THEN SubSeq(p, 1, FirstAt(p, "-") - 1) ELSE p
AfterField(p) == SubSeq(p, FirstAt(p, "-") + 1, Len(p))
Direction(p) == IF Includes(p, "-") THEN Str(Field(AfterField(p))) ELSE Undef

\* xs are the comma-separated parts of text.
PartsOf(xs, text) ==
    /\ Join(xs, ",") = text
    /\ \A i \in 1..Len(xs) : ~Includes(xs[i], ",")

RECURSIVE CommaParts(_)
CommaParts(text) ==
    IF ~Includes(text, ",") THEN <<text>>
    ELSE <<SubSeq(text, 1, FirstAt(text, ",") - 1)>>
         \o CommaParts(SubSeq(text, FirstAt(text, ",") + 1, Len(text)))

MapsAsClaimed(key, text, out) ==
    IF Includes(text, ",")
    THEN IF key = "distinct"
         THEN /\ out.t = "arr"
              /\ \A i \in 1..Len(out.xs) : out.xs[i].t = "str"
              /\ PartsOf([i \in 1..Len(out.xs) |-> out.xs[i].s], text)
         ELSE /\ out.t = "obj"
              /\ LET xs == CommaParts(text) IN
                   /\ PartsOf(xs, text)
                   /\ DOMAIN out.f = {Field(xs[i]) : i \in 1..Len(xs)}
                   /\ \A i \in 1..Len(xs) :
                        (\A j \in (i + 1)..Len(xs) : Field(xs[j]) # Field(xs[i]))
                            => out.f[Field(xs[i])] = Direction(xs[i])
    ELSE IF Includes(text, "-")
    THEN out = Obj([k \in {Field(text)} |-> Direction(text)])
    ELSE IF AllDigits(text)
    THEN out = Num(DigitsVal(text))
    ELSE out = Str(text)

C14_NonWhereMapping ==
    \A r \in Reqs :
        (OnCollection(r) /\ req[r].method = "GET") =>
            \A k \in (DOMAIN req[r].query) \ {"where"} :
                /\ \A i \in 1..Len(calls[r]) :
                     MapsAsClaimed(k, req[r].query[k].s, calls[r][i].query[k])
                /\ \A i \in 1..Len(log[r]) :
                     (log[r][i].k = "error" /\ log[r][i].ph = "query") => calls[r] # <<>>

C14_Witness ==
    \E r \in Reqs :
        /\ Len(calls[r]) = 1
        /\ "orderBy" \in DOMAIN req[r].query
        /\ req[r].query["orderBy"] = Str(<<"a", "-", "5", ",">>)
        /\ calls[r][1].query["orderBy"] =
               Obj([k \in {<<"a">>, <<>>} |-> IF k = <<"a">> THEN S("5") ELSE Undef])

(***************************************************************************)
(* C15.  mapQuery is idempotent on already-structured input: applied to a  *)
(* query whose `where` entry is already a structured object it succeeds    *)
(* and returns that same object, and applied again to that result it       *)
(* returns the same object again.                                          *)
(***************************************************************************)
StructuredWhere(r) ==
    /\ OnCollection(r)
    /\ "where" \in DOMAIN req[r].query
    /\ req[r].query["where"].t = "obj"

C15_IdempotentOnStructured ==
    \A r \in Reqs :
        StructuredWhere(r) =>
            /\ mapQuery(req[r].query).ok
            /\ mapQuery(req[r].query).v = req[r].query
            /\ mapQuery(mapQuery(req[r].query).v) = mapQuery(req[r].query)

\* C15 as amended: a `where` entry has to be JSON text.  Applied to a query
\* whose `where` entry is already a structured object, mapQuery fails with
\* the malformed-JSON error (declared status 400) and the read makes no
\* persistence call; applied to JSON text of an object it returns the
\* parsed object, and applied again to that result it fails the same way.
C15_StructuredWhereRejected ==
    \A r \in Reqs :
        (OnCollection(r) /\ "where" \in DOMAIN req[r].query) =>
            LET once == mapQuery(req[r].query) IN
            /\ StructuredWhere(r) =>
                   /\ ~once.ok
                   /\ once.status = 400
                   /\ calls[r] = <<>>
            /\ (once.ok /\ once.v["where"].t = "obj") =>
                   /\ req[r].query["where"].t = "str"
                   /\ ~mapQuery(once.v).ok
                   /\ mapQuery(once.v).status = 400
            /\ calls[r] # <<>> => (once.ok /\ calls[r][1].query = once.v)

C15_Witness ==
    \E r \in Reqs :
        /\ StructuredWhere(r)
        /\ req[r].query["where"] = Obj([k \in {<<"a">>} |-> Num(1)])
        /\ pc[r] = "done"
        /\ \E i \in 1..Len(log[r]) : log[r][i].k = "error" /\ log[r][i].ph = "query"
        /\ calls[r] = <<>>

(***************************************************************************)
(* C16.  Each active plugin's transform runs exactly once per hook phase   *)
(* of a request (four times in a write, twice in a read), in registration  *)
(* order, and before the first hook of that phase.                         *)
(***************************************************************************)
RECURSIVE Repeat(_, _)
Repeat(xs, n) == IF n = 0 THEN <<>> ELSE xs \o Repeat(xs, n - 1)

InRegistrationOrder(names) ==
    names = SelectSeq(PluginTitles, LAMBDA t : \E i \in 1..Len(names) : names[i] = t)

C16_PluginsOncePerPhase ==
    \A r \in Reqs :
        OnCollection(r) =>
            LET l == log[r] IN
            /\ \A i \in 1..Len(l) :
                 IsHook(l[i]) =>
                     /\ PluginsOfPhase(l, l[i].ph) = activePlugins
                     /\ InRegistrationOrder(PluginsOfPhase(l, l[i].ph))
                     /\ \A j \in 1..Len(l) :
                          (l[j].k = "plugin" /\ l[j].ph = l[i].ph) => j < i
            /\ (pc[r] = "done" /\ res[r].kind = "data" /\ req[r].method \in CrudMethods) =>
                 NamesOf(l, {"plugin"}) =
                     Repeat(activePlugins, IF req[r].method = "GET" THEN 2 ELSE 4)

C16_Witness ==
    \E r \in Reqs :
        /\ pc[r] = "done"
        /\ req[r].method = "POST"
        /\ res[r].kind = "data"
        /\ NamesOf(log[r], {"plugin"}) = Repeat(<<"p1", "p2">>, 4)

(***************************************************************************)
(* C17.  When an active plugin's transform returns a Context that differs  *)
(* from the one it received, the hooks that follow it in the same phase    *)
(* receive that returned Context as their ctx.                             *)
(***************************************************************************)
\* The latest hook of the request, and the plugin calls of its phase.
LastHook(l) == l[CHOOSE i \in 1..Len(l) : IsHook(l[i]) /\ \A j \in (i + 1)..Len(l) : ~IsHook(l[j])]
PluginCalls(l, phase) == SelectSeq(l, LAMBDA e : e.k = "plugin" /\ e.ph = phase)

C17_HooksGetReturnedContext ==
    \A r \in Reqs :
        HookRan(r) =>
            LET ps == PluginCalls(log[r], LastHook(log[r]).ph) IN
            (ps # <<>> /\ ps[Len(ps)].o = "ret") =>
                obs[r].customVars.plugin = ps[Len(ps)].n

(***************************************************************************)
(* C18.  When any step of the pipeline raises an error (a plugin           *)
(* transform, a hook of any phase, query normalisation, a persistence      *)
(* call), control goes directly to the error boundary: no later hook, no   *)
(* later persistence call, no success response and no webhook for that     *)
(* request.                                                                *)
(***************************************************************************)
C18_ErrorGoesToBoundary ==
    \A r \in Reqs :
        LET l == log[r] IN
        /\ \A i \in 1..Len(l) :
             l[i].o = "throw" => (i < Len(l) /\ l[i + 1].k = "error")
        /\ \A i \in 1..Len(l) :
             l[i].k = "error" =>
                 /\ \A j \in (i + 1)..Len(l) :
                      /\ l[j].k \notin {"plugin", "hook", "persist", "webhook"}
                      /\ ~(l[j].k = "respond" /\ l[j].o = "data")
                 /\ pc[r] = "done"
                 /\ res[r].kind # "data"

C18_Witness ==
    \E r \in Reqs :
        /\ pc[r] = "done"
        /\ req[r].method = "PUT"
        /\ Len(calls[r]) = 1
        /\ calls[r][1].result = Row
        /\ \E i \in 1..Len(log[r]) :
             /\ IsHook(log[r][i]) /\ log[r][i].n = "a1" /\ log[r][i].o = "throw"
        /\ res[r].kind = "error"

(***************************************************************************)
(* C19.  For every write request exactly one persistence primitive is      *)
(* chosen, by the operation and by whether inputData.data is a list only:  *)
(* POST calls createMany for a list (passing the caller's skipDuplicates   *)
(* flag) and create otherwise, PUT calls updateMany or update, DELETE      *)
(* calls deleteMany or delete.                                             *)
(***************************************************************************)
C19_PrimitiveSelection ==
    \A r \in Reqs :
        (OnCollection(r) /\ req[r].method \in {"POST", "PUT", "DELETE"}) =>
            LET m == req[r].method
                list == inputData[r].data.t = "arr"
            IN
            /\ \A i \in 1..Len(calls[r]) :
                 LET c == calls[r][i] IN
                 /\ (m = "POST" /\ list) =>
                        (c.prim = "createMany" /\ c.skipDuplicates = req[r].body.skipDuplicates)
                 /\ (m = "POST" /\ ~list) => c.prim = "create"
                 /\ (m = "PUT" /\ list) => c.prim = "updateMany"
                 /\ (m = "PUT" /\ ~list) => c.prim = "update"
                 /\ (m = "DELETE" /\ list) => c.prim = "deleteMany"
                 /\ (m = "DELETE" /\ ~list) => c.prim = "delete"
            /\ (pc[r] = "done" /\ res[r].kind = "data") => Len(calls[r]) = 1

C19_Witness ==
    \E r \in Reqs :
        /\ pc[r] = "done"
        /\ req[r].method = "POST"
        /\ res[r].kind = "data"
        /\ inputData[r].data.t = "arr"
        /\ Len(calls[r]) = 1
        /\ calls[r][1].prim = "createMany"
        /\ calls[r][1].skipDuplicates = Bool(TRUE)

(***************************************************************************)
(* C20.  The envelope given to every triggered webhook carries the         *)
(* operation name, the collection, an ISO-8601 timestamp, and as data the  *)
(* persistence result whenever that result is non-empty (a single record   *)
(* as well as a non-empty list), null only when the result is empty.       *)
(***************************************************************************)
WebhookTriggered(r) == \E i \in 1..Len(log[r]) : log[r][i].k = "webhook"

C20_EnvelopeCarriesResult ==
    \A r \in Reqs :
        WebhookTriggered(r) =>
            /\ payload[r].event = flippedCrudMapping(req[r].method)
            /\ payload[r].collection = "cKey"
            /\ payload[r].timestamp = "ISO-8601"
            /\ payload[r].data =
                   IF resultData[r] = Arr(<<>>) THEN Null ELSE resultData[r]

(***************************************************************************)
(* C22.  Whenever a hook or plugin transform of phase P of some request is *)
(* executing, the cursor ctx.util.currentHook it observes equals P, for a  *)
(* single request and under every interleaving of in-flight requests.      *)
(***************************************************************************)
C22_CursorIsOwnPhase ==
    \A r \in Reqs :
        HookRan(r) => obs[r].currentHook = LastHook(log[r]).ph

(***************************************************************************)
(* C23.  In query normalisation JSON parsing is applied to `where` only,   *)
(* comma-splitting goes before hyphen-splitting, and numeric coercion is   *)
(* applied last and only to values that are still scalar: a list or        *)
(* mapping built by structural parsing, and a `where` value that parsed to *)
(* a non-number ([], [5], null, true), is returned as parsed and never     *)
(* replaced by a number.                                                   *)
(***************************************************************************)
C23_CoercionOnlyOfScalars ==
    \A r \in Reqs :
        (OnCollection(r) /\ req[r].method = "GET") =>
            \A k \in DOMAIN req[r].query : \A i \in 1..Len(calls[r]) :
                LET v == req[r].query[k]
                    out == calls[r][i].query[k]
                IN
                /\ (k # "where" /\ v.t = "str" /\ Includes(v.s, ",")) =>
                       out.t = (IF k = "distinct" THEN "arr" ELSE "obj")
                /\ (k # "where" /\ v.t = "str" /\ ~Includes(v.s, ",") /\ Includes(v.s, "-")) =>
                       out.t = "obj"
                /\ (k = "where" /\ v.t = "str" /\ JSONParse(v.s).ok
                        /\ JSONParse(v.s).v.t \in {"arr", "obj", "null", "bool"}) =>
                       out = JSONParse(v.s).v

(***************************************************************************)
(* C21.  Webhook deliveries are independent and fire-and-forget: a failure *)
(* while triggering one matching webhook does not change the response      *)
(* already returned, is not routed into a second response, and does not    *)
(* prevent the remaining matching webhooks of the request from being       *)
(* triggered.                                                              *)
(***************************************************************************)
SuccessSent(r) ==
    \E i \in 1..Len(log[r]) : log[r][i].k = "respond" /\ log[r][i].o = "data"

RespondEvents(l) == SelectSeq(l, LAMBDA e : e.k = "respond")

C21_DeliveriesIndependent ==
    \A r \in Reqs :
        SuccessSent(r) =>
            /\ res[r].kind = "data" /\ res[r].status = 200 /\ res[r].body = resultData[r]
            /\ Len(RespondEvents(log[r])) = 1
            /\ NamesOf(log[r], {"webhook"}) =
                   MatchingNames(globalWebhooks \o webhooks, flippedCrudMapping(req[r].method))

(***************************************************************************)
(* C24.  Each request produces at most one response body: after the        *)
(* success body has been sent, an error raised later in the same handler   *)
(* (while triggering webhooks) reaches the error boundary, which logs it   *)
(* but writes no second body; the boundary writes the JSON error body      *)
(* {success: false, message} only when no response has been sent yet.      *)
(***************************************************************************)
C24_AtMostOneBody ==
    \A r \in Reqs :
        /\ Len(RespondEvents(log[r])) <= 1
        /\ SuccessSent(r) =>
               /\ res[r].sent /\ res[r].status = 200 /\ res[r].kind = "data"
               /\ res[r].body = resultData[r]
        /\ (Errored(r) /\ ~SuccessSent(r)) =>
               /\ res[r].sent /\ res[r].status = 500 /\ res[r].body = ErrBody
               /\ Len(RespondEvents(log[r])) = 1
        /\ res[r].body = ErrBody => (Errored(r) /\ ~SuccessSent(r))

C24_Witness ==
    \E r \in Reqs :
        /\ pc[r] = "done"
        /\ SuccessSent(r)
        /\ \E i \in 1..Len(log[r]) : log[r][i].k = "webhook" /\ log[r][i].o = "throw"
        /\ log[r][Len(log[r])].k = "error"
        /\ res[r].kind = "data"

(***************************************************************************)
(* C25.  If an afterOperation hook throws in a write request, the          *)
(* persistence call of that request has already been made exactly once and *)
(* is not undone or repeated, the client receives the error response and   *)
(* not the persisted result, the remaining afterOperation hooks do not     *)
(* run, and no webhook is triggered for that committed operation.          *)
(***************************************************************************)
C25_AfterHookThrowKeepsCommit ==
    \A r \in Reqs : \A i \in 1..Len(log[r]) :
        LET l == log[r] IN
        (/\ OnCollection(r) /\ req[r].method \in {"POST", "PUT", "DELETE"}
         /\ IsHook(l[i]) /\ l[i].ph = "afterOperation" /\ l[i].o = "throw") =>
            /\ Len(calls[r]) = 1
            /\ calls[r][1].result # Absent
            /\ resultData[r] = calls[r][1].result
            /\ Len(NamesOf(l, {"persist"})) = 1
            /\ \E j \in 1..(i - 1) : IsPersist(l[j])
            /\ \A j \in (i + 1)..Len(l) : ~IsHook(l[j])
            /\ ~WebhookTriggered(r)
            /\ res[r].sent /\ res[r].status = 500 /\ res[r].body = ErrBody
            /\ res[r].body # resultData[r]
            /\ pc[r] = "done"

C25_Witness ==
    \E r \in Reqs :
        /\ pc[r] = "done"
        /\ req[r].method = "POST"
        /\ Len(calls[r]) = 1
        /\ calls[r][1].prim = "create"
        /\ calls[r][1].result = Row
        /\ NamesOf(log[r], {"hook"}) = <<"b1", "b2", "v1", "m1", "m2", "a1">>
        /\ log[r][Len(log[r]) - 2].o = "throw"
        /\ res[r].body = ErrBody

====
